---- MODULE Spec2Model ----
(***************************************************************************)
(* A model of the requests HTTP(S) client library for Zephyr:              *)
(*   - the URL parser (requests_url_parser, requests_url_fields_get),      *)
(*   - the readiness gate (requests_dns_lookup, requests_dns_cb,           *)
(*     net_event_l4_handler and the two static semaphores),                *)
(*   - the connection and request path (requests_connect_setup,            *)
(*     requests_connect, requests, requests_setopt, requests_init).        *)
(* Strings are sequences of one-character strings; offsets are 0-based as  *)
(* in the C code, TLA+ sequence indices are 1-based.                       *)
(***************************************************************************)
EXTENDS Integers, Sequences, FiniteSets, TLC

(***************************************************************************)
(* Program constants.                                                      *)
(***************************************************************************)
\* errno values returned (negated) by the library.
EINVAL == 22
EAGAIN == 11
ECONNABORTED == 113
ENFILE == 23
ETIMEDOUT == 116

\* sizeof(url_fields.schema) and sizeof(port_ascii).
SCHEMA_LEN == 8
PORT_ASCII_LEN == 6
\* CONFIG_REQUESTS_HTTP_PORT / CONFIG_REQUESTS_HTTPS_PORT.
REQUESTS_HTTP_PORT == 80
REQUESTS_HTTPS_PORT == 443

(***************************************************************************)
(* Capacities fixed by the host configuration (NI_MAXHOST from netdb.h,    *)
(* CONFIG_REQUESTS_URL_LEN from Kconfig), scaled down; the URL inputs      *)
(* below are built relative to them.                                       *)
(***************************************************************************)
NI_MAXHOST == 5
REQUESTS_URL_LEN == 24
\* sizeof(ctx->payload), NET_IPV4_MTU from the host's net_ip.h, scaled down.
NET_IPV4_MTU == 4
\* sizeof(ctx->protocol).
PROTOCOL_LEN == 16
\* The value TLS_PEER_VERIFY takes for "no verification": the int 0, as the
\* four bytes of its object representation.
TLS_PEER_VERIFY_NONE == <<0, 0, 0, 0>>

(***************************************************************************)
(* Characters and strings.                                                 *)
(***************************************************************************)
Alpha == {"h", "t", "p", "s", "a", "b", "x", "H", "T", "P", "S"}
Digit == {"0", "3", "4", "8"}

IsAlpha(c) == c \in Alpha
IsDigit(c) == c \in Digit

\* n copies of character c.
Rep(c, n) == [i \in 1..n |-> c]

\* tolower() on one character / on a string.
LowerChar(c) ==
  CASE c = "H" -> "h"
    [] c = "T" -> "t"
    [] c = "P" -> "p"
    [] c = "S" -> "s"
    [] OTHER -> c
Lower(s) == [i \in 1..Len(s) |-> LowerChar(s[i])]

DigitVal(c) ==
  CASE c = "0" -> 0
    [] c = "3" -> 3
    [] c = "4" -> 4
    [] c = "8" -> 8
    [] OTHER -> 0

\* The decimal value of a digit string.
RECURSIVE DecVal(_)
DecVal(s) ==
  IF Len(s) = 0 THEN 0
  ELSE 10 * DecVal(SubSeq(s, 1, Len(s) - 1)) + DigitVal(s[Len(s)])

\* atoi(): the value of the leading digits of the string.
atoi(s) ==
  LET n == CHOOSE k \in 0..Len(s) :
             /\ \A i \in 1..k : IsDigit(s[i])
             /\ (k = Len(s) \/ ~IsDigit(s[k + 1]))
  IN DecVal(SubSeq(s, 1, n))

\* Assignment to a uint16_t.
U16(v) == v % 65536

(***************************************************************************)
(* http_parser_parse_url(url, strlen(url), 0, &purl): the host library's   *)
(* URL scanner, by its effect on purl->field_data.  It returns 0 on        *)
(* success and 1 on failure, leaving the fields scanned so far in purl.    *)
(***************************************************************************)
NoField == [off |-> 0, len |-> 0]
EmptyPurl == [UF_SCHEMA |-> NoField, UF_HOST |-> NoField,
              UF_PORT |-> NoField, UF_PATH |-> NoField]

\* Length of the longest prefix of s[from+1 ..] whose characters are in set cs.
SpanLen(s, from, cs) ==
  CHOOSE k \in 0..(Len(s) - from) :
    /\ \A i \in 1..k : s[from + i] \in cs
    /\ (from + k = Len(s) \/ s[from + k + 1] \notin cs)

\* The characters the scanner takes as part of a path: every URL character
\* of the alphabet used here but "?", which starts the query string.
PathChars == Alpha \cup Digit \cup {"/", ".", ":"}

http_parser_parse_url(url) ==
  LET n == Len(url) IN
  IF n = 0 THEN [ret |-> 1, purl |-> EmptyPurl]
  ELSE IF url[1] = "/"
    THEN [ret |-> 0, purl |-> [EmptyPurl EXCEPT
                                 !.UF_PATH = [off |-> 0,
                                              len |-> SpanLen(url, 0, PathChars)]]]
  ELSE IF ~IsAlpha(url[1]) THEN [ret |-> 1, purl |-> EmptyPurl]
  ELSE
    LET a == SpanLen(url, 0, Alpha)
        p1 == [EmptyPurl EXCEPT !.UF_SCHEMA = [off |-> 0, len |-> a]]
    IN
    IF ~(n >= a + 3 /\ url[a + 1] = ":" /\ url[a + 2] = "/" /\ url[a + 3] = "/")
      THEN [ret |-> 1, purl |-> p1]
    ELSE
      LET s0 == a + 3
          srv == SpanLen(url, s0, Alpha \cup Digit \cup {".", ":"})
          rest == n - (s0 + srv)
          plen == IF rest > 0 /\ url[s0 + srv + 1] = "/"
                    THEN SpanLen(url, s0 + srv, PathChars)
                    ELSE 0
          p2 == IF plen > 0
                  THEN [p1 EXCEPT !.UF_PATH = [off |-> s0 + srv, len |-> plen]]
                  ELSE p1
      IN
      IF rest > 0 /\ url[s0 + srv + 1] \notin {"/", "?"} THEN [ret |-> 1, purl |-> p1]
      ELSE IF srv = 0 THEN [ret |-> 1, purl |-> p2]
      ELSE
        \* http_parse_host() splits the server part into host and port.
        LET server == SubSeq(url, s0 + 1, s0 + srv)
            h == SpanLen(server, 0, Alpha \cup Digit \cup {"."})
            p3 == [p2 EXCEPT !.UF_HOST = [off |-> s0, len |-> h]]
            d == SpanLen(server, h + 1, Digit)
            p4 == IF d > 0
                    THEN [p3 EXCEPT !.UF_PORT = [off |-> s0 + h + 1, len |-> d]]
                    ELSE p3
        IN
        IF h = 0 THEN [ret |-> 1, purl |-> p3]
        ELSE IF h = srv THEN [ret |-> 0, purl |-> p3]
        ELSE IF d = 0 \/ h + 1 + d # srv THEN [ret |-> 1, purl |-> p4]
        ELSE IF DecVal(SubSeq(server, h + 2, srv)) > 65535
          THEN [ret |-> 1, purl |-> p4]
        ELSE [ret |-> 0, purl |-> p4]

(***************************************************************************)
(* requests_url_fields_get(url, purl, url_field, field, field_len).        *)
(* text is the C string left in the field buffer, written the number of    *)
(* bytes stored into it, read_end the offset one past the last byte read   *)
(* from url (url holds strlen(url) + 1 bytes).                             *)
(***************************************************************************)
requests_url_fields_get(url, purl, url_field, field_len) ==
  LET off == purl[url_field].off
      len == purl[url_field].len
  IN
  IF len = 0 \/ len >= field_len
    THEN [ret |-> -EINVAL, text |-> <<>>, written |-> 0, read_end |-> 0]
  ELSE IF url_field = "UF_PATH"
    THEN [ret |-> 0, text |-> SubSeq(url, off + 1, Len(url)),
          written |-> Len(url) + 1, read_end |-> off + Len(url)]
  ELSE [ret |-> 0, text |-> SubSeq(url, off + 1, off + len),
        written |-> len + 1, read_end |-> off + len]

(***************************************************************************)
(* requests_url_parser(ctx, url).  The result is the set of outcomes the   *)
(* build can produce: ret, the url_fields left in the context, and io, the *)
(* bytes stored into each field buffer and the offset one past the last    *)
(* byte read from url.  When the UF_PATH copy stores more than             *)
(* sizeof(uri) bytes, the excess lands on the members that follow uri in   *)
(* struct requests_url_fields (port, is_ssl), whose values are then any.   *)
(***************************************************************************)
ZeroUrlFields ==
  [schema |-> <<>>, hostname |-> <<>>, uri |-> <<>>, port |-> 0, is_ssl |-> FALSE]
NoIo == [schema |-> 0, hostname |-> 0, port_ascii |-> 0, uri |-> 0, read_end |-> 0]

Max2(a, b) == IF a >= b THEN a ELSE b

requests_url_parser(url_fields, url, tls) ==
  LET r == http_parser_parse_url(url)
      s == requests_url_fields_get(url, r.purl, "UF_SCHEMA", SCHEMA_LEN)
      h == requests_url_fields_get(url, r.purl, "UF_HOST", NI_MAXHOST)
      p == requests_url_fields_get(url, r.purl, "UF_PORT", PORT_ASCII_LEN)
      u == requests_url_fields_get(url, r.purl, "UF_PATH", REQUESTS_URL_LEN)
      port == IF p.ret < 0
                THEN (IF tls THEN REQUESTS_HTTPS_PORT ELSE REQUESTS_HTTP_PORT)
                ELSE U16(atoi(p.text))
      uri == IF u.ret < 0 THEN <<"/">> ELSE u.text
      uri_written == IF u.ret < 0 THEN 2 ELSE u.written
      io == [schema |-> s.written, hostname |-> h.written,
             port_ascii |-> p.written, uri |-> uri_written,
             read_end |-> Max2(Max2(s.read_end, h.read_end),
                               Max2(p.read_end, u.read_end))]
      uf == [url_fields EXCEPT !.schema = s.text, !.hostname = h.text,
                               !.port = port, !.uri = uri]
  IN
  IF r.ret < 0
    THEN {[ret |-> r.ret, url_fields |-> url_fields, io |-> NoIo]}
  ELSE IF s.ret < 0
    THEN {[ret |-> s.ret, url_fields |-> url_fields, io |-> NoIo]}
  ELSE IF h.ret < 0
    THEN {[ret |-> h.ret,
           url_fields |-> [url_fields EXCEPT !.schema = s.text],
           io |-> [NoIo EXCEPT !.schema = s.written, !.read_end = s.read_end]]}
  ELSE IF uri_written > REQUESTS_URL_LEN
    THEN {[ret |-> 0,
           url_fields |-> [uf EXCEPT !.port = pt, !.is_ssl = ssl],
           io |-> io] : pt \in {port, 0, 65535}, ssl \in BOOLEAN}
  ELSE {[ret |-> 0, url_fields |-> uf, io |-> io]}

(***************************************************************************)
(* URL inputs: a URL is written from its components.                       *)
(***************************************************************************)
http == <<"h", "t", "t", "p">>
https == <<"h", "t", "t", "p", "s">>

Schemas == {<<>>, http, https, <<"H", "T", "T", "P", "S">>, Rep("x", SCHEMA_LEN)}
Hosts == {<<>>, <<"h">>, Rep("h", NI_MAXHOST - 1), Rep("h", NI_MAXHOST)}
Ports == {<<>>, <<"8", "0">>, <<"8", "4", "4", "3">>,
          <<"0", "0", "0", "0", "8", "0">>}
Paths == {<<>>, <<"/">>, <<"/", "a", "/", "b">>,
          <<"/">> \o Rep("a", REQUESTS_URL_LEN - 2),
          <<"/">> \o Rep("a", REQUESTS_URL_LEN - 1)}
Queries == {<<>>, <<"?", "x">>}

UrlOf(c) ==
  (IF c.schema = <<>> THEN <<>> ELSE c.schema \o <<":", "/", "/">>)
  \o c.host
  \o (IF c.port = <<>> THEN <<>> ELSE <<":">> \o c.port)
  \o c.path
  \o c.query

UrlInputs ==
  {[schema |-> s, host |-> h, port |-> p, path |-> q, query |-> y] :
     s \in Schemas, h \in Hosts, p \in Ports, q \in Paths, y \in Queries}

(***************************************************************************)
(* Bounds of the model.                                                    *)
(***************************************************************************)
\* requests_init calls per context.
MaxInits == 2
\* Candidate addresses the resolver delivers for one query.
MaxAddrs == 2
\* Size of the socket descriptor table.
MaxFds == 2
\* Options a caller changes on one context between requests_init and requests.
MaxOpts == 2

(***************************************************************************)
(* State.                                                                  *)
(***************************************************************************)
VARIABLES
  tls,            \* IS_ENABLED(CONFIG_NET_SOCKETS_SOCKOPT_TLS)
  kconfig,        \* CONFIG_REQUESTS_SSL_VERIFYHOST / _VERIFYPEER
  url_in,         \* the URL given to requests_url_parser, by components
  url_out,        \* what requests_url_parser left in a zeroed context
  pc,             \* where each caller thread is
  ctx,            \* struct requests_ctx of each caller thread
  inits,          \* requests_init calls made so far by each thread
  init_ret,       \* return value of the last requests_init
  res,            \* what the last requests call did and returned
  link,           \* the network layer is up
  l4_cb,          \* net_event_l4_handler is registered; a status resend is due
  ipv4_wait,      \* count of the semaphore ipv4_wait
  dns_wait,       \* count of the semaphore dns_wait and the query that gave it
  took,           \* the query whose completion ended each thread's DNS wait
  queries,        \* the resolver's queries
  fds,            \* open socket descriptors
  hist            \* per thread: the stages its last requests_init went through, and
                  \* the value each option was last given to requests_setopt

vars == <<tls, kconfig, url_in, url_out, pc, ctx, inits, init_ret, res,
          link, l4_cb, ipv4_wait, dns_wait, took, queries, fds, hist>>

parse_vars == <<url_in, url_out>>
life_vars == <<pc, ctx, inits, init_ret, res, link, l4_cb, ipv4_wait,
               dns_wait, took, queries, fds, hist>>

Threads == {1, 2}
QueryIds == Threads \X (1..MaxInits)
NoQ == <<0, 0>>

\* A context after memset(ctx, 0, sizeof(struct requests_ctx)).
NoAddr == [q |-> NoQ, k |-> 0]
ZeroCtx ==
  [sockfd |-> 0, sa |-> NoAddr, url_fields |-> ZeroUrlFields, cb |-> "NULL",
   payload |-> <<>>, payload_size |-> 0, protocol |-> <<>>, headers |-> "NULL",
   is_ssl_verifyhost |-> FALSE, is_ssl_verifypeer |-> FALSE,
   status_code |-> 0, err |-> 0]

\* A request after memset(&req, 0, sizeof(struct http_request)).
ZeroReq ==
  [method |-> "none", url |-> <<>>, host |-> <<>>, header_fields |-> "NULL",
   protocol |-> <<>>, response |-> "NULL", payload |-> "NULL", payload_len |-> 0]

NoRes == [called |-> FALSE, ret |-> 0, calls |-> <<>>, created |-> -1,
          closes |-> 0, handler_calls |-> 0, http_status |-> 0,
          exchanged |-> FALSE, req |-> ZeroReq]

\* A resolver query: its state, the number of candidate addresses delivered,
\* the index of the first IPv4 one (0: none) and whether a candidate of
\* another family was delivered.
NoQuery == [st |-> "none", n |-> 0, first4 |-> 0, other |-> FALSE]

\* The URLs the lifecycle is driven with.
HttpUrl == [schema |-> http, host |-> <<"h">>, port |-> <<>>, path |-> <<>>,
            query |-> <<>>]
HttpsUrl == [schema |-> https, host |-> <<"h">>, port |-> <<"8", "4", "4", "3">>,
             path |-> <<"/", "a", "/", "b">>, query |-> <<>>]
BadUrl == [schema |-> <<>>, host |-> <<"h">>, port |-> <<>>, path |-> <<>>,
           query |-> <<>>]
LifeUrls == {HttpUrl, HttpsUrl, BadUrl}

NoIn == [schema |-> <<>>, host |-> <<>>, port |-> <<>>, path |-> <<>>,
         query |-> <<>>]
NoOut == [done |-> FALSE, ret |-> 0, url_fields |-> ZeroUrlFields, io |-> NoIo]

(***************************************************************************)
(* The resolver callback.  info is NoInfo for a NULL info pointer.  The    *)
(* result is the context it leaves and whether it gave dns_wait.           *)
(***************************************************************************)
NoInfo == [ai_family |-> "none", ai_addr |-> NoAddr]

requests_dns_cb(c, status, info) ==
  LET c2 == IF info = NoInfo THEN c
            ELSE IF info.ai_family = "AF_INET"
              THEN [c EXCEPT !.sa = info.ai_addr, !.err = 0]
            ELSE [c EXCEPT !.err = -EINVAL]
  IN [ctx |-> c2, give |-> (status = "DNS_EAI_ALLDONE")]

(***************************************************************************)
(* The connection path.  The host's answers are parameters: fd is what     *)
(* socket() returns (-1 on failure), failopt the TLS option whose          *)
(* setsockopt() fails ("none": none does), conn_ok whether connect()       *)
(* succeeds.  calls is the sequence of socket-layer calls made.            *)
(***************************************************************************)
Call(op, fd, ok) == [op |-> op, fd |-> fd, ok |-> ok]

\* The values setsockopt(TLS_PEER_VERIFY, (int *)&ctx->is_ssl_verifypeer,
\* sizeof(int)) can be given: the sizeof(int) bytes at the address of the bool
\* member is_ssl_verifypeer.  They are that member, the two padding bytes
\* after it (zero since the memset of requests_init) and the first byte of
\* the member status_code that follows: the low byte of status_code on a
\* little-endian build, its high byte on a big-endian one.
PeerVerifyArgs(c) ==
  LET b0 == IF c.is_ssl_verifypeer THEN 1 ELSE 0
      lo == c.status_code % 256
      hi == (c.status_code \div 16777216) % 256
  IN {<<b0, 0, 0, lo>>, <<b0, 0, 0, hi>>}

\* requests_connect_setup without the TLS_HOSTNAME option.
setup_without_hostname(c, fd, failopt) ==
  LET c1 == [c EXCEPT !.sockfd = fd]
      sock == <<Call(IF tls THEN "socket_tls" ELSE "socket_tcp", fd, fd >= 0)>>
      peeropt == IF c.is_ssl_verifypeer THEN "TLS_SEC_TAG_LIST" ELSE "TLS_PEER_VERIFY"
      peer == IF c.is_ssl_verifypeer
                THEN <<Call(peeropt, fd, failopt # peeropt)>>
                ELSE <<[op |-> peeropt, fd |-> fd, ok |-> failopt # peeropt,
                        args |-> PeerVerifyArgs(c)]>>
  IN
  IF fd < 0 THEN [ret |-> -ENFILE, ctx |-> c1, calls |-> sock]
  ELSE IF ~tls THEN [ret |-> 0, ctx |-> c1, calls |-> sock]
  ELSE IF ~peer[1].ok
    THEN [ret |-> -1, ctx |-> c1, calls |-> sock \o peer]
  ELSE [ret |-> 0, ctx |-> c1, calls |-> sock \o peer]

requests_connect_setup(c, fd, failopt) ==
  LET c1 == [c EXCEPT !.sockfd = fd]
      sock == <<Call(IF tls THEN "socket_tls" ELSE "socket_tcp", fd, fd >= 0)>>
      host == IF c.is_ssl_verifyhost
                THEN <<[op |-> "TLS_HOSTNAME", fd |-> fd,
                        ok |-> failopt # "TLS_HOSTNAME",
                        args |-> {c.url_fields.hostname}]>>
                ELSE <<>>
      peeropt == IF c.is_ssl_verifypeer THEN "TLS_SEC_TAG_LIST" ELSE "TLS_PEER_VERIFY"
      peer == IF c.is_ssl_verifypeer
                THEN <<Call(peeropt, fd, failopt # peeropt)>>
                ELSE <<[op |-> peeropt, fd |-> fd, ok |-> failopt # peeropt,
                        args |-> PeerVerifyArgs(c)]>>
  IN
  IF fd < 0 THEN [ret |-> -ENFILE, ctx |-> c1, calls |-> sock]
  ELSE IF ~tls THEN [ret |-> 0, ctx |-> c1, calls |-> sock]
  ELSE IF host # <<>> /\ ~host[1].ok
    THEN [ret |-> -1, ctx |-> c1, calls |-> sock \o host]
  ELSE IF ~peer[1].ok
    THEN [ret |-> -1, ctx |-> c1, calls |-> sock \o host \o peer]
  ELSE [ret |-> 0, ctx |-> c1, calls |-> sock \o host \o peer]

\* requests_connect that hands on the error of requests_connect_setup.
connect_passes_setup_error(c, fd, failopt, conn_ok) ==
  LET AfterSetup(s) ==
        IF s.ret < 0
          THEN [ret |-> s.ret, ctx |-> s.ctx, calls |-> s.calls]
        ELSE IF ~conn_ok
          THEN [ret |-> -ECONNABORTED, ctx |-> [s.ctx EXCEPT !.sockfd = -1],
                calls |-> s.calls \o <<Call("connect", s.ctx.sockfd, FALSE),
                                       Call("close", s.ctx.sockfd, TRUE)>>]
        ELSE [ret |-> 0, ctx |-> s.ctx,
              calls |-> s.calls \o <<Call("connect", s.ctx.sockfd, TRUE)>>]
  IN AfterSetup(requests_connect_setup(c, fd, failopt))

requests_connect(c, fd, failopt, conn_ok) ==
  LET AfterSetup(s) ==
        IF s.ret < 0
          THEN [ret |-> -ECONNABORTED, ctx |-> s.ctx, calls |-> s.calls]
        ELSE IF ~conn_ok
          THEN [ret |-> -ECONNABORTED, ctx |-> [s.ctx EXCEPT !.sockfd = -1],
                calls |-> s.calls \o <<Call("connect", s.ctx.sockfd, FALSE),
                                       Call("close", s.ctx.sockfd, TRUE)>>]
        ELSE [ret |-> 0, ctx |-> s.ctx,
              calls |-> s.calls \o <<Call("connect", s.ctx.sockfd, TRUE)>>]
  IN AfterSetup(requests_connect_setup(c, fd, failopt))

(***************************************************************************)
(* Response handlers a caller may install with REQUESTS_WRITEFUNCTION:     *)
(* http_response_handler (the shell's and the README's) stores the status  *)
(* code; "other" is a handler that does not write the context.             *)
(***************************************************************************)
Handlers == {"NULL", "http_response_handler", "other"}

http_response_handler(c, rsp) == [c EXCEPT !.status_code = rsp.http_status_code]

(***************************************************************************)
(* http_client_req(sock, req, timeout, user_data): the host's exchange.    *)
(* x is what happens on the wire: the value returned (bytes sent, or a     *)
(* negative error), the response's status code and the number of response  *)
(* fragments delivered to req.response.                                    *)
(***************************************************************************)
Exchanges ==
  {[ret |-> 64, status |-> 200, frags |-> 2],
   [ret |-> 64, status |-> 404, frags |-> 1],
   [ret |-> -ETIMEDOUT, status |-> 0, frags |-> 0]}

http_client_req(c, req, x) ==
  LET n == IF req.response = "NULL" THEN 0 ELSE x.frags
      c2 == IF n > 0 /\ req.response = "http_response_handler"
              THEN http_response_handler(c, [http_status_code |-> x.status])
              ELSE c
  IN [ret |-> x.ret, ctx |-> c2, handler_calls |-> n]

(***************************************************************************)
(* requests(ctx, method).                                                  *)
(***************************************************************************)
Methods == {"HTTP_GET", "HTTP_POST"}

\* The request requests builds from the connected context c1.
http_request(c1, method) ==
  [ZeroReq EXCEPT
     !.method = method,
     !.url = c1.url_fields.uri,
     !.host = c1.url_fields.hostname,
     !.header_fields = c1.headers,
     !.protocol = c1.protocol,
     !.response = c1.cb,
     !.payload = IF method = "HTTP_POST" \/ method = "HTTP_PUT"
                   THEN "ctx->payload" ELSE @,
     !.payload_len = IF method = "HTTP_POST" \/ method = "HTTP_PUT"
                       THEN NET_IPV4_MTU ELSE @]

\* requests that does not look at what requests_connect returned.
requests_ignores_connect_error(c, method, fd, failopt, conn_ok, x) ==
  LET AfterExchange(k, req, h) ==
        [ret |-> h.ret, ctx |-> h.ctx,
         calls |-> k.calls \o <<Call("http_client_req", k.ctx.sockfd, h.ret >= 0),
                                Call("close", k.ctx.sockfd, TRUE)>>,
         handler_calls |-> h.handler_calls, exchanged |-> TRUE, req |-> req]
      Exchange(k, req) == AfterExchange(k, req, http_client_req(k.ctx, req, x))
      AfterConnect(k) == Exchange(k, http_request(k.ctx, method))
  IN AfterConnect(requests_connect(c, fd, failopt, conn_ok))

requests(c, method, fd, failopt, conn_ok, x) ==
  LET AfterExchange(k, req, h) ==
        [ret |-> h.ret, ctx |-> h.ctx,
         calls |-> k.calls \o <<Call("http_client_req", k.ctx.sockfd, h.ret >= 0),
                                Call("close", k.ctx.sockfd, TRUE)>>,
         handler_calls |-> h.handler_calls, exchanged |-> TRUE, req |-> req]
      Exchange(k, req) == AfterExchange(k, req, http_client_req(k.ctx, req, x))
      AfterConnect(k) ==
        IF k.ret < 0
          THEN [ret |-> k.ret, ctx |-> k.ctx, calls |-> k.calls,
                handler_calls |-> 0, exchanged |-> FALSE, req |-> ZeroReq]
          ELSE Exchange(k, http_request(k.ctx, method))
  IN AfterConnect(requests_connect(c, fd, failopt, conn_ok))

(***************************************************************************)
(* requests_setopt(ctx, option, parameter).                                *)
(***************************************************************************)
\* strncpy(dst, src, n) into a buffer whose byte n is zero.
strncpy(src, n) == SubSeq(src, 1, IF Len(src) < n THEN Len(src) ELSE n)

\* requests_setopt whose default case records an error in the context.
setopt_default_sets_err(c, option, parameter) ==
  CASE option = "REQUESTS_HTTPHEADERS" -> [c EXCEPT !.headers = parameter]
    [] option = "REQUESTS_POSTFIELDS" ->
         [c EXCEPT !.payload = strncpy(parameter, NET_IPV4_MTU - 1)]
    [] option = "REQUESTS_PROTOCOL" ->
         [c EXCEPT !.protocol = strncpy(parameter, PROTOCOL_LEN - 1)]
    [] option = "REQUESTS_SSL_VERIFYHOST" -> [c EXCEPT !.is_ssl_verifyhost = parameter]
    [] option = "REQUESTS_SSL_VERIFYPEER" -> [c EXCEPT !.is_ssl_verifypeer = parameter]
    [] option = "REQUESTS_WRITEFUNCTION" -> [c EXCEPT !.cb = parameter]
    [] OTHER -> [c EXCEPT !.err = -EINVAL]

requests_setopt(c, option, parameter) ==
  CASE option = "REQUESTS_HTTPHEADERS" -> [c EXCEPT !.headers = parameter]
    [] option = "REQUESTS_POSTFIELDS" ->
         [c EXCEPT !.payload = strncpy(parameter, NET_IPV4_MTU - 1)]
    [] option = "REQUESTS_PROTOCOL" ->
         [c EXCEPT !.protocol = strncpy(parameter, PROTOCOL_LEN - 1)]
    [] option = "REQUESTS_SSL_VERIFYHOST" -> [c EXCEPT !.is_ssl_verifyhost = parameter]
    [] option = "REQUESTS_SSL_VERIFYPEER" -> [c EXCEPT !.is_ssl_verifypeer = parameter]
    [] option = "REQUESTS_WRITEFUNCTION" -> [c EXCEPT !.cb = parameter]
    [] OTHER -> c

\* The member of the context that holds the value of an option; no member
\* holds REQUESTS_USERPWD, nor an option outside enum requests_options.
Stored(c, option) ==
  CASE option = "REQUESTS_HTTPHEADERS" -> c.headers
    [] option = "REQUESTS_POSTFIELDS" -> c.payload
    [] option = "REQUESTS_POSTFIELDS_SIZE" -> c.payload_size
    [] option = "REQUESTS_PROTOCOL" -> c.protocol
    [] option = "REQUESTS_SSL_VERIFYHOST" -> c.is_ssl_verifyhost
    [] option = "REQUESTS_SSL_VERIFYPEER" -> c.is_ssl_verifypeer
    [] option = "REQUESTS_WRITEFUNCTION" -> c.cb
    [] OTHER -> "NULL"

\* enum requests_options, and a value outside it.
RecognizedOptions ==
  {"REQUESTS_HTTPHEADERS", "REQUESTS_POSTFIELDS", "REQUESTS_POSTFIELDS_SIZE",
   "REQUESTS_PROTOCOL", "REQUESTS_SSL_VERIFYHOST", "REQUESTS_SSL_VERIFYPEER",
   "REQUESTS_USERPWD", "REQUESTS_WRITEFUNCTION"}
UnrecognizedOption == "REQUESTS_OPTION_8"

\* The value of each option in context c, before any requests_setopt.
Asked(c) == [option \in RecognizedOptions \cup {UnrecognizedOption} |->
               Stored(c, option)]

(***************************************************************************)
(* Kernel semaphores (limit 1).  k_sem_give hands the semaphore to a       *)
(* waiting thread if there is one, and otherwise raises the count up to    *)
(* the limit.                                                              *)
(***************************************************************************)
Waiting(at) == {t \in Threads : pc[t] = at}

\* net_event_l4_handler(cb, status, iface)
net_event_l4_handler(status) ==
  IF status = "NET_EVENT_L4_CONNECTED"
    THEN \/ /\ Waiting("link_wait") # {}
            /\ \E w \in Waiting("link_wait") : pc' = [pc EXCEPT ![w] = "link_ok"]
            /\ UNCHANGED ipv4_wait
         \/ /\ Waiting("link_wait") = {}
            /\ ipv4_wait' = 1
            /\ UNCHANGED pc
    ELSE UNCHANGED <<pc, ipv4_wait>>

(***************************************************************************)
(* The host: link state changes, the status resend asked for by            *)
(* conn_mgr_mon_resend_status(), and the resolver's callbacks.             *)
(***************************************************************************)
LinkUp ==
  /\ ~link
  /\ link' = TRUE
  /\ IF l4_cb.registered
       THEN net_event_l4_handler("NET_EVENT_L4_CONNECTED")
       ELSE UNCHANGED <<pc, ipv4_wait>>
  /\ UNCHANGED <<tls, kconfig, parse_vars, ctx, inits, init_ret, res,
                 l4_cb, dns_wait, took, queries, fds, hist>>

LinkDown ==
  /\ link
  /\ link' = FALSE
  /\ IF l4_cb.registered
       THEN net_event_l4_handler("NET_EVENT_L4_DISCONNECTED")
       ELSE UNCHANGED <<pc, ipv4_wait>>
  /\ UNCHANGED <<tls, kconfig, parse_vars, ctx, inits, init_ret, res,
                 l4_cb, dns_wait, took, queries, fds, hist>>

ResendStatus ==
  /\ l4_cb.resend
  /\ l4_cb' = [l4_cb EXCEPT !.resend = FALSE]
  /\ net_event_l4_handler(IF link THEN "NET_EVENT_L4_CONNECTED"
                                  ELSE "NET_EVENT_L4_DISCONNECTED")
  /\ UNCHANGED <<tls, kconfig, parse_vars, ctx, inits, init_ret, res,
                 link, dns_wait, took, queries, fds, hist>>

\* The resolver delivers one candidate address of query q.
DnsResult(q, family) ==
  /\ queries[q].st = "active"
  /\ queries[q].n < MaxAddrs
  /\ LET k == queries[q].n + 1
         info == [ai_family |-> family, ai_addr |-> [q |-> q, k |-> k]]
         r == requests_dns_cb(ctx[q[1]], "DNS_EAI_INPROGRESS", info)
     IN /\ ctx' = [ctx EXCEPT ![q[1]] = r.ctx]
        /\ queries' = [queries EXCEPT
                         ![q].n = k,
                         ![q].first4 = IF @ = 0 /\ family = "AF_INET" THEN k ELSE @,
                         ![q].other = @ \/ family # "AF_INET"]
  /\ UNCHANGED <<tls, kconfig, parse_vars, pc, inits, init_ret, res,
                 link, l4_cb, ipv4_wait, dns_wait, took, fds, hist>>

\* The resolver ends query q with a final status and no info.  It reports
\* DNS_EAI_ALLDONE only after it delivered an address.
DnsFinal(q, status) ==
  /\ queries[q].st = "active"
  /\ status = "DNS_EAI_ALLDONE" => queries[q].n > 0
  /\ queries' = [queries EXCEPT ![q].st = "final"]
  /\ LET r == requests_dns_cb(ctx[q[1]], status, NoInfo) IN
     /\ ctx' = [ctx EXCEPT ![q[1]] = r.ctx]
     /\ IF r.give
          THEN \/ /\ Waiting("dns_wait") # {}
                  /\ \E w \in Waiting("dns_wait") :
                       /\ pc' = [pc EXCEPT ![w] = "dns_ok"]
                       /\ took' = [took EXCEPT ![w] = q]
                  /\ UNCHANGED dns_wait
               \/ /\ Waiting("dns_wait") = {}
                  /\ dns_wait' = IF dns_wait.count = 0
                                   THEN [count |-> 1, from |-> q]
                                   ELSE dns_wait
                  /\ UNCHANGED <<pc, took>>
          ELSE UNCHANGED <<pc, took, dns_wait>>
  /\ UNCHANGED <<tls, kconfig, parse_vars, inits, init_ret, res,
                 link, l4_cb, ipv4_wait, fds, hist>>

(***************************************************************************)
(* requests_init(ctx, url), in the steps between which the caller can      *)
(* block: up to the take of ipv4_wait, from there to the take of dns_wait, *)
(* and the return.                                                         *)
(***************************************************************************)
\* memset, the Kconfig defaults, requests_url_parser, and requests_dns_lookup
\* up to k_sem_take(&ipv4_wait, ...).
InitStart(t, u, limit) ==
  /\ pc[t] \in {"idle", "ready", "done"}
  /\ inits[t] < limit
  /\ inits' = [inits EXCEPT ![t] = @ + 1]
  /\ took' = [took EXCEPT ![t] = NoQ]
  /\ res' = [res EXCEPT ![t] = NoRes]
  /\ \E o \in requests_url_parser(ZeroUrlFields, UrlOf(u), tls) :
       LET c == [ZeroCtx EXCEPT !.is_ssl_verifyhost = kconfig.verifyhost,
                                !.is_ssl_verifypeer = kconfig.verifypeer,
                                !.url_fields = o.url_fields]
       IN
       /\ ctx' = [ctx EXCEPT ![t] = c]
       /\ IF o.ret < 0
            THEN /\ pc' = [pc EXCEPT ![t] = "ready"]
                 /\ init_ret' = [init_ret EXCEPT ![t] = o.ret]
                 /\ hist' = [hist EXCEPT ![t] = [stages |-> <<"parse">>, asked |-> Asked(c)]]
                 /\ UNCHANGED <<l4_cb, ipv4_wait>>
          ELSE IF Len(c.url_fields.hostname) = 0
            THEN /\ pc' = [pc EXCEPT ![t] = "ready"]
                 /\ init_ret' = [init_ret EXCEPT ![t] = -EINVAL]
                 /\ hist' = [hist EXCEPT ![t] = [stages |-> <<"hostname">>, asked |-> Asked(c)]]
                 /\ UNCHANGED <<l4_cb, ipv4_wait>>
          ELSE /\ l4_cb' = [registered |-> TRUE, resend |-> TRUE]
               /\ init_ret' = [init_ret EXCEPT ![t] = 0]
               /\ hist' = [hist EXCEPT ![t] = [stages |-> <<"link_wait">>, asked |-> Asked(c)]]
               /\ IF ipv4_wait > 0
                    THEN /\ ipv4_wait' = ipv4_wait - 1
                         /\ pc' = [pc EXCEPT ![t] = "link_ok"]
                    ELSE /\ pc' = [pc EXCEPT ![t] = "link_wait"]
                         /\ UNCHANGED ipv4_wait
  /\ UNCHANGED <<tls, kconfig, parse_vars, link, dns_wait, queries, fds>>

\* A time-out of k_sem_take(&ipv4_wait, ...) after which requests_dns_lookup
\* goes on to the query.
LinkTimeout_goes_on(t) ==
  /\ pc[t] = "link_wait"
  /\ pc' = [pc EXCEPT ![t] = "link_ok"]
  /\ init_ret' = [init_ret EXCEPT ![t] = -EAGAIN]
  /\ hist' = [hist EXCEPT ![t].stages = Append(@, "link_timeout")]
  /\ UNCHANGED <<tls, kconfig, parse_vars, ctx, inits, res, link, l4_cb,
                 ipv4_wait, dns_wait, took, queries, fds>>

\* k_sem_take(&ipv4_wait, ...) times out.
LinkTimeout(t) ==
  /\ pc[t] = "link_wait"
  /\ pc' = [pc EXCEPT ![t] = "ready"]
  /\ init_ret' = [init_ret EXCEPT ![t] = -EAGAIN]
  /\ hist' = [hist EXCEPT ![t].stages = Append(@, "link_timeout")]
  /\ UNCHANGED <<tls, kconfig, parse_vars, ctx, inits, res, link, l4_cb,
                 ipv4_wait, dns_wait, took, queries, fds>>

\* dns_get_addr_info(...) and k_sem_take(&dns_wait, ...).
DnsQuery(t, accepted) ==
  /\ pc[t] = "link_ok"
  /\ IF ~accepted
       THEN /\ pc' = [pc EXCEPT ![t] = "ready"]
            /\ init_ret' = [init_ret EXCEPT ![t] = -EINVAL]
            /\ hist' = [hist EXCEPT ![t].stages = Append(@, "dns_refused")]
            /\ UNCHANGED <<queries, dns_wait, took>>
       ELSE /\ queries' = [queries EXCEPT ![<<t, inits[t]>>] =
                             [NoQuery EXCEPT !.st = "active"]]
            /\ hist' = [hist EXCEPT ![t].stages = Append(@, "dns_wait")]
            /\ UNCHANGED init_ret
            /\ IF dns_wait.count > 0
                 THEN /\ dns_wait' = [count |-> 0, from |-> NoQ]
                      /\ took' = [took EXCEPT ![t] = dns_wait.from]
                      /\ pc' = [pc EXCEPT ![t] = "dns_ok"]
                 ELSE /\ pc' = [pc EXCEPT ![t] = "dns_wait"]
                      /\ UNCHANGED <<dns_wait, took>>
  /\ UNCHANGED <<tls, kconfig, parse_vars, ctx, inits, res, link, l4_cb,
                 ipv4_wait, fds>>

\* k_sem_take(&dns_wait, ...) times out.
DnsTimeout(t) ==
  /\ pc[t] = "dns_wait"
  /\ pc' = [pc EXCEPT ![t] = "ready"]
  /\ init_ret' = [init_ret EXCEPT ![t] = -EAGAIN]
  /\ hist' = [hist EXCEPT ![t].stages = Append(@, "dns_timeout")]
  /\ UNCHANGED <<tls, kconfig, parse_vars, ctx, inits, res, link, l4_cb,
                 ipv4_wait, dns_wait, took, queries, fds>>

\* ret = ctx->err; return ret (requests_dns_lookup), return (requests_init).
InitReturn(t) ==
  /\ pc[t] = "dns_ok"
  /\ pc' = [pc EXCEPT ![t] = "ready"]
  /\ init_ret' = [init_ret EXCEPT ![t] = IF ctx[t].err < 0 THEN ctx[t].err ELSE 0]
  /\ hist' = [hist EXCEPT ![t].stages = Append(@, "returned")]
  /\ UNCHANGED <<tls, kconfig, parse_vars, ctx, inits, res, link, l4_cb,
                 ipv4_wait, dns_wait, took, queries, fds>>

(***************************************************************************)
(* requests_setopt and requests, called on a context requests_init has     *)
(* returned from (whatever it returned).                                   *)
(***************************************************************************)
OptionValues ==
  [REQUESTS_SSL_VERIFYHOST |-> BOOLEAN, REQUESTS_SSL_VERIFYPEER |-> BOOLEAN,
   REQUESTS_WRITEFUNCTION |-> Handlers \ {"NULL"}]

Setopt(t, option, parameter) ==
  /\ pc[t] = "ready"
  /\ ctx' = [ctx EXCEPT ![t] = requests_setopt(ctx[t], option, parameter)]
  /\ hist' = [hist EXCEPT ![t].asked[option] = parameter]
  /\ UNCHANGED <<tls, kconfig, parse_vars, pc, inits, init_ret, res, link,
                 l4_cb, ipv4_wait, dns_wait, took, queries, fds>>

\* What socket() can return: the lowest free descriptor, or -1.
FreeFds == (0..(MaxFds - 1)) \ fds
SocketResults ==
  {-1} \cup (IF FreeFds = {} THEN {}
             ELSE {CHOOSE fd \in FreeFds : \A g \in FreeFds : fd <= g})

\* The TLS option whose setsockopt() fails, among those the context asks for.
FailOpts(c) ==
  {"none"} \cup
  (IF tls
     THEN (IF c.is_ssl_verifyhost THEN {"TLS_HOSTNAME"} ELSE {})
          \cup {IF c.is_ssl_verifypeer THEN "TLS_SEC_TAG_LIST" ELSE "TLS_PEER_VERIFY"}
     ELSE {})

\* The number of close() calls on descriptor fd in a sequence of calls.
Closes(calls, fd) ==
  Cardinality({i \in 1..Len(calls) : calls[i].op = "close" /\ calls[i].fd = fd})

Execute(t, method) ==
  /\ pc[t] = "ready"
  /\ pc' = [pc EXCEPT ![t] = "done"]
  /\ \E fd \in SocketResults, failopt \in FailOpts(ctx[t]),
        conn_ok \in BOOLEAN, x \in Exchanges :
       \* one choice for each answer the call does not get to ask for
       /\ fd < 0 => failopt = "none"
       /\ (fd < 0 \/ failopt # "none") => ~conn_ok
       /\ ~conn_ok => x.frags = 0
       /\ \E r \in {requests(ctx[t], method, fd, failopt, conn_ok, x)} :
          LET closed == {r.calls[i].fd : i \in {j \in 1..Len(r.calls) :
                                                  r.calls[j].op = "close"}}
          IN
          /\ ctx' = [ctx EXCEPT ![t] = r.ctx]
          /\ fds' = (fds \cup (IF fd >= 0 THEN {fd} ELSE {})) \ closed
          /\ res' = [res EXCEPT ![t] =
                       [called |-> TRUE, ret |-> r.ret, calls |-> r.calls,
                        created |-> fd, closes |-> Closes(r.calls, fd),
                        handler_calls |-> r.handler_calls,
                        http_status |-> IF r.exchanged /\ r.ret >= 0
                                          THEN x.status ELSE 0,
                        exchanged |-> r.exchanged, req |-> r.req]]
  /\ UNCHANGED <<tls, kconfig, parse_vars, inits, init_ret, link, l4_cb,
                 ipv4_wait, dns_wait, took, queries, hist>>

(***************************************************************************)
(* The lifecycle of one context: requests_init, requests_setopt and        *)
(* requests called in sequence by one thread, against the host.            *)
(***************************************************************************)
Builds ==
  /\ tls \in BOOLEAN
  /\ kconfig \in {[verifyhost |-> b, verifypeer |-> b] : b \in BOOLEAN}

LifeInit ==
  /\ pc = [t \in Threads |-> "idle"]
  /\ ctx = [t \in Threads |-> ZeroCtx]
  /\ inits = [t \in Threads |-> 0]
  /\ init_ret = [t \in Threads |-> 0]
  /\ res = [t \in Threads |-> NoRes]
  /\ link \in BOOLEAN
  /\ l4_cb = [registered |-> FALSE, resend |-> FALSE]
  /\ ipv4_wait = 0
  /\ dns_wait = [count |-> 0, from |-> NoQ]
  /\ took = [t \in Threads |-> NoQ]
  /\ queries = [q \in QueryIds |-> NoQuery]
  /\ fds = {}
  /\ hist = [t \in Threads |-> [stages |-> <<>>, asked |-> Asked(ZeroCtx)]]

Init ==
  /\ Builds
  /\ url_in = NoIn
  /\ url_out = NoOut
  /\ LifeInit

Host ==
  \/ LinkUp
  \/ LinkDown
  \/ ResendStatus
  \/ \E q \in QueryIds, family \in {"AF_INET", "AF_INET6"} : DnsResult(q, family)
  \/ \E q \in QueryIds,
        status \in {"DNS_EAI_ALLDONE", "DNS_EAI_CANCELED", "DNS_EAI_FAIL",
                    "DNS_EAI_NODATA"} : DnsFinal(q, status)

InitSteps(t, limit, urls) ==
  \/ \E u \in urls : InitStart(t, u, limit)
  \/ LinkTimeout(t)
  \/ \E accepted \in BOOLEAN : DnsQuery(t, accepted)
  \/ DnsTimeout(t)
  \/ InitReturn(t)

Next ==
  \/ Host
  \/ InitSteps(1, 1, LifeUrls)
  \/ \E option \in DOMAIN OptionValues :
       \E parameter \in OptionValues[option] : Setopt(1, option, parameter)
  \/ \E method \in Methods : Execute(1, method)

Spec == Init /\ [][Next]_vars

(***************************************************************************)
(* Two contexts initialised concurrently, each by its own thread.          *)
(***************************************************************************)
NextConc ==
  \/ Host
  \/ \E t \in Threads : InitSteps(t, 1, {HttpUrl})

ConcInit == Init /\ kconfig.verifyhost

SpecConc == ConcInit /\ [][NextConc]_vars

(***************************************************************************)
(* One context initialised again and again by one thread.                  *)
(***************************************************************************)
NextSeq ==
  \/ Host
  \/ InitSteps(1, MaxInits, {HttpUrl, BadUrl})

SeqInit == Init /\ kconfig.verifyhost

SpecSeq == SeqInit /\ [][NextSeq]_vars

(***************************************************************************)
(* The URL parser applied to a zeroed context, over the URL inputs.        *)
(***************************************************************************)
ParseInit ==
  /\ Builds
  /\ url_in \in UrlInputs
  /\ url_out = NoOut
  /\ LifeInit
  /\ link = FALSE

Parse ==
  /\ ~url_out.done
  /\ \E o \in requests_url_parser(ZeroUrlFields, UrlOf(url_in), tls) :
       url_out' = [done |-> TRUE, ret |-> o.ret, url_fields |-> o.url_fields,
                   io |-> o.io]
  /\ UNCHANGED <<tls, kconfig, url_in, life_vars>>

NextParse == Parse

SpecParse == ParseInit /\ [][NextParse]_vars

(***************************************************************************)
(* The options of one context: requests_init against a host whose link is  *)
(* up and whose resolver answers, then requests_setopt with every option   *)
(* (at most MaxOpts different ones changed), then requests.                *)
(***************************************************************************)
AllOptionValues ==
  [REQUESTS_HTTPHEADERS |-> {"headers_a", "headers_b"},
   REQUESTS_POSTFIELDS |-> {<<"a">>, Rep("b", NET_IPV4_MTU - 1),
                            Rep("c", NET_IPV4_MTU)},
   REQUESTS_POSTFIELDS_SIZE |-> {1, 2},
   REQUESTS_PROTOCOL |-> {<<"H", "T", "T", "P", "/", "1", ".", "0">>,
                          <<"H", "T", "T", "P", "/", "1", ".", "1">>},
   REQUESTS_SSL_VERIFYHOST |-> BOOLEAN,
   REQUESTS_SSL_VERIFYPEER |-> BOOLEAN,
   REQUESTS_USERPWD |-> {"user:pwd"},
   REQUESTS_WRITEFUNCTION |-> Handlers \ {"NULL"},
   REQUESTS_OPTION_8 |-> {"parameter"}]

\* The options whose last requested value differs from what requests_init left.
Changed(t) ==
  LET c0 == [ZeroCtx EXCEPT !.is_ssl_verifyhost = kconfig.verifyhost,
                            !.is_ssl_verifypeer = kconfig.verifypeer]
  IN {option \in DOMAIN hist[t].asked : hist[t].asked[option] # Asked(c0)[option]}

SetoptAny(t) ==
  \E option \in DOMAIN AllOptionValues :
    \E parameter \in AllOptionValues[option] :
      /\ Cardinality(Changed(t) \cup {option}) <= MaxOpts
      /\ Setopt(t, option, parameter)

Resolver ==
  \/ ResendStatus
  \/ \E q \in QueryIds : DnsResult(q, "AF_INET")
  \/ \E q \in QueryIds : DnsFinal(q, "DNS_EAI_ALLDONE")

NextOpt ==
  \/ Resolver
  \/ InitSteps(1, 1, {HttpUrl})
  \/ SetoptAny(1)
  \/ \E method \in Methods \cup {"HTTP_PUT"} : Execute(1, method)

OptInit ==
  /\ Init
  /\ link = TRUE
  /\ kconfig.verifyhost

SpecOpt == OptInit /\ [][NextOpt]_vars

(***************************************************************************)
(* One context used for several requests after one requests_init.          *)
(***************************************************************************)
\* The caller goes on with the same context after requests returned.
Reuse(t) ==
  /\ pc[t] = "done"
  /\ pc' = [pc EXCEPT ![t] = "ready"]
  /\ UNCHANGED <<tls, kconfig, parse_vars, ctx, inits, init_ret, res, link,
                 l4_cb, ipv4_wait, dns_wait, took, queries, fds, hist>>

NextReuse ==
  \/ Resolver
  \/ InitSteps(1, 1, {HttpUrl})
  \/ \E option \in DOMAIN OptionValues :
       \E parameter \in OptionValues[option] : Setopt(1, option, parameter)
  \/ \E method \in Methods : Execute(1, method)
  \/ Reuse(1)

ReuseInit ==
  /\ Init
  /\ link = TRUE

SpecReuse == ReuseInit /\ [][NextReuse]_vars

(***************************************************************************)
(* Properties of requests (specification Spec).                            *)
(***************************************************************************)
Returned(t) == pc[t] = "done" /\ res[t].called
Prepared(t) == inits[t] > 0 /\ init_ret[t] = 0

\* C1: every socket a requests call creates (on a context requests_init
\* succeeded on) is closed exactly once before the call returns, on every exit
\* path; none is still open after it returns.
C1_SocketClosedOnce ==
  \A t \in Threads :
    (Returned(t) /\ Prepared(t) /\ res[t].created >= 0) =>
      (res[t].closes = 1 /\ res[t].created \notin fds)

\* C2: requests on a context whose requests_init failed returns -EINVAL and
\* makes no socket-layer call (no socket, no connect).
C2_UnpreparedRejected ==
  \A t \in Threads :
    (Returned(t) /\ init_ret[t] < 0) =>
      (res[t].ret = -EINVAL /\ res[t].calls = <<>>)

\* C6: after requests returns success (on a context requests_init succeeded
\* on), ctx->status_code is the status code of the response, whatever response
\* handler is installed (none included).
C6_StatusCodeStored ==
  \A t \in Threads :
    (Returned(t) /\ Prepared(t) /\ res[t].ret >= 0) =>
      ctx[t].status_code = res[t].http_status

(***************************************************************************)
(* Properties of requests_init called again and again (SpecSeq).           *)
(***************************************************************************)
InitSucceeded(t) == pc[t] = "ready" /\ inits[t] > 0 /\ init_ret[t] = 0
OwnQuery(t) == <<t, inits[t]>>

\* C3: a requests_init succeeds only if the completion of its own query ended
\* its DNS wait; a completion left over from an earlier query does not.
C3_OwnCompletionOnly ==
  \A t \in Threads : InitSucceeded(t) => took[t] = OwnQuery(t)

\* C4: requests_init returns success only if the context holds an IPv4
\* address the resolver delivered for this init's own query.
C4_SuccessHasOwnAddress ==
  \A t \in Threads : InitSucceeded(t) => ctx[t].sa.q = OwnQuery(t)

(***************************************************************************)
(* Properties of two contexts initialised concurrently (SpecConc).         *)
(***************************************************************************)
\* C5: the DNS wait of one context's requests_init is never ended by the
\* completion signal of the other context's query.
C5_NoSharedSignal ==
  \A t \in Threads : took[t] # NoQ => took[t][1] = t

(***************************************************************************)
(* Properties of the URL parser (SpecParse).                               *)
(***************************************************************************)
Parsed == url_out.done /\ url_out.ret = 0
SchemaIs(name) == Lower(url_in.schema) = name
\* The UF_PATH copy stayed within the uri buffer, so port and is_ssl hold what
\* the parser assigned to them.
UriFits == url_out.io.uri <= REQUESTS_URL_LEN

\* C7: an explicit port is stored exactly; without a port the stored port is
\* 80 for schema "http" and 443 for schema "https" (stated for the parses
\* whose copies stay within the uri buffer).
C7_PortRecovered ==
  (Parsed /\ UriFits) =>
    /\ url_in.port # <<>> => url_out.url_fields.port = DecVal(url_in.port)
    /\ (url_in.port = <<>> /\ SchemaIs(http)) => url_out.url_fields.port = 80
    /\ (url_in.port = <<>> /\ SchemaIs(https)) => url_out.url_fields.port = 443

\* C8: after a successful parse is_ssl is true exactly when the schema is
\* "https" (compared case-insensitively) and false when it is "http" (stated
\* for the parses whose copies stay within the uri buffer).
C8_IsSslFollowsSchema ==
  (Parsed /\ UriFits /\ (SchemaIs(http) \/ SchemaIs(https))) =>
    (url_out.url_fields.is_ssl <=> SchemaIs(https))

\* C9: parsing fails when the URL has no schema or no host, or when the
\* schema, hostname, port or path does not fit its field; an over-long
\* component is never replaced by a default while parsing reports success.
C9_OverlongRejected ==
  (/\ url_out.done
   /\ \/ url_in.schema = <<>>
      \/ url_in.host = <<>>
      \/ Len(url_in.schema) >= SCHEMA_LEN
      \/ Len(url_in.host) >= NI_MAXHOST
      \/ Len(url_in.port) >= PORT_ASCII_LEN
      \/ Len(url_in.path) >= REQUESTS_URL_LEN)
  => url_out.ret < 0

\* C10: the bytes stored into each field buffer never exceed its capacity,
\* and no byte is read past the end of the URL string (its terminator).
C10_CopiesInBounds ==
  url_out.done =>
    /\ url_out.io.schema <= SCHEMA_LEN
    /\ url_out.io.hostname <= NI_MAXHOST
    /\ url_out.io.port_ascii <= PORT_ASCII_LEN
    /\ url_out.io.uri <= REQUESTS_URL_LEN
    /\ url_out.io.read_end <= Len(UrlOf(url_in)) + 1

(***************************************************************************)
(* Properties of the options and the request built from them (SpecOpt).    *)
(***************************************************************************)
BodyMethod(t) == res[t].req.method \in {"HTTP_POST", "HTTP_PUT"}
Declared(t) == hist[t].asked["REQUESTS_POSTFIELDS_SIZE"]

\* C11: the request requests hands to the exchange carries a payload only for
\* HTTP_POST and HTTP_PUT, and then its payload length is the size declared
\* with REQUESTS_POSTFIELDS_SIZE; for every other method it has no payload
\* and payload length 0.
C11_PayloadAsDeclared ==
  \A t \in Threads :
    (Returned(t) /\ Prepared(t) /\ res[t].exchanged) =>
      IF BodyMethod(t)
        THEN "REQUESTS_POSTFIELDS_SIZE" \in Changed(t) =>
               (res[t].req.payload # "NULL" /\ res[t].req.payload_len = Declared(t))
        ELSE res[t].req.payload = "NULL" /\ res[t].req.payload_len = 0

\* The parameter fits the buffer the option is copied into.
Fits(option, parameter) ==
  /\ option = "REQUESTS_POSTFIELDS" => Len(parameter) < NET_IPV4_MTU
  /\ option = "REQUESTS_PROTOCOL" => Len(parameter) < PROTOCOL_LEN

\* C12: for each option of enum requests_options, the value the context
\* holds for it is the value last given to requests_setopt for that option,
\* whatever the earlier values and whatever other options were set since
\* (stated for parameters that fit the context's buffers).
C12_LastValueStored ==
  \A t \in Threads : \A option \in RecognizedOptions :
    (Prepared(t) /\ option \in Changed(t) /\ Fits(option, hist[t].asked[option])) =>
      Stored(ctx[t], option) = hist[t].asked[option]

\* A requests_setopt call of thread t with an option outside the enum.
UnrecognizedSetopt(t) ==
  /\ inits'[t] = inits[t]
  /\ hist'[t].asked[UnrecognizedOption] # hist[t].asked[UnrecognizedOption]

\* C13: requests_setopt with an option outside enum requests_options leaves
\* every member of the context as it was (the err member included: no error
\* is recorded).
C13_UnrecognizedIsNoop ==
  [][\A t \in Threads : UnrecognizedSetopt(t) => ctx'[t] = ctx[t]]_vars

\* A context some of whose options were set, then given an option outside
\* the enum.
C13_Witness ==
  \E t \in Threads :
    /\ hist[t].asked[UnrecognizedOption] = "parameter"
    /\ ctx[t].cb # "NULL"
    /\ Prepared(t)

(***************************************************************************)
(* Properties of one context used for several requests (SpecReuse).        *)
(***************************************************************************)
\* The positions in a sequence of calls of the calls with an op in ops.
CallsOf(calls, ops) == {i \in 1..Len(calls) : calls[i].op \in ops}

ConnectionFailed(t) ==
  \E i \in CallsOf(res[t].calls, {"socket_tcp", "socket_tls", "TLS_HOSTNAME",
                                  "TLS_SEC_TAG_LIST", "TLS_PEER_VERIFY", "connect"}) :
    ~res[t].calls[i].ok

\* C15: when the socket creation, a TLS option setting or connect fails, the
\* response handler of the context is not called during that requests call
\* and http_client_req is not called.
C15_NoHandlerOnConnectionFailure ==
  \A t \in Threads :
    (Returned(t) /\ ConnectionFailed(t)) =>
      /\ res[t].handler_calls = 0
      /\ CallsOf(res[t].calls, {"http_client_req"}) = {}

\* connect failed on a context with a response handler installed.
C15_Witness ==
  \E t \in Threads :
    /\ Returned(t) /\ Prepared(t)
    /\ ctx[t].cb = "http_response_handler"
    /\ \E i \in CallsOf(res[t].calls, {"connect"}) : ~res[t].calls[i].ok

\* C16: when the socket creation, a TLS option setting or connect fails,
\* requests returns -ECONNABORTED, not the error of the failed call, and does
\* not go on to the exchange.
C16_ConnectionAborted ==
  \A t \in Threads :
    (Returned(t) /\ ConnectionFailed(t)) =>
      /\ res[t].ret = -ECONNABORTED
      /\ ~res[t].exchanged

\* The socket creation or a TLS option setting failed in a TLS build.
C16_Witness ==
  \E t \in Threads :
    /\ Returned(t) /\ Prepared(t)
    /\ res[t].ret = -ECONNABORTED
    /\ \E i \in CallsOf(res[t].calls, {"socket_tls", "TLS_HOSTNAME",
                                        "TLS_SEC_TAG_LIST", "TLS_PEER_VERIFY"}) :
         ~res[t].calls[i].ok

\* C19: requests returns 0 when the exchange succeeds and a negative error
\* code when a step fails; it never returns a positive value.
C19_ZeroOnSuccess ==
  \A t \in Threads :
    (Returned(t) /\ Prepared(t)) =>
      /\ res[t].ret <= 0
      /\ (res[t].exchanged /\ res[t].http_status # 0) => res[t].ret = 0

(***************************************************************************)
(* More properties of requests_init (SpecSeq).                             *)
(***************************************************************************)
\* The first requests_init of thread t returned after the completion of its
\* own query ended its DNS wait.
FirstInitReturned(t) ==
  /\ pc[t] = "ready"
  /\ inits[t] = 1
  /\ took[t] = OwnQuery(t)
  /\ hist[t].stages = <<"link_wait", "dns_wait", "returned">>

\* C17: when the resolver delivered several IPv4 candidates before the final
\* status, the address in the context when requests_init returns is the first
\* IPv4 candidate delivered.
C17_FirstIPv4Kept ==
  \A t \in Threads :
    (FirstInitReturned(t) /\ queries[OwnQuery(t)].first4 > 0) =>
      ctx[t].sa = [q |-> OwnQuery(t), k |-> queries[OwnQuery(t)].first4]

\* C18: requests_init fails with -EINVAL (unsupported address family) exactly
\* when, over the whole sequence of callbacks of its query, no IPv4 result
\* was delivered and a result of another family was.
C18_UnsupportedFamilyExactly ==
  \A t \in Threads :
    FirstInitReturned(t) =>
      (init_ret[t] = -EINVAL <=>
         (queries[OwnQuery(t)].first4 = 0 /\ queries[OwnQuery(t)].other))

\* stage s is among the stages the last requests_init of thread t went through.
Went(t, s) == \E i \in 1..Len(hist[t].stages) : hist[t].stages[i] = s

\* C20: requests_init runs the URL parse, the wait for the link and the DNS
\* query in this order and stops at the first failure: after a failed parse
\* (or an empty hostname) it has returned the error without registering for
\* link events or issuing a query; after a time-out of the wait for the link
\* it has returned -EAGAIN without issuing a query; and a query was issued
\* only after the wait for the link.
C20_StagesInOrder ==
  \A t \in Threads :
    inits[t] > 0 =>
      LET own == queries[OwnQuery(t)] IN
      /\ (Went(t, "parse") \/ Went(t, "hostname")) =>
           /\ pc[t] = "ready" /\ init_ret[t] < 0
           /\ own.st = "none"
           /\ ~Went(t, "link_wait")
           /\ inits[t] = 1 => ~l4_cb.registered
      /\ Went(t, "link_timeout") =>
           /\ pc[t] = "ready" /\ init_ret[t] = -EAGAIN
           /\ own.st = "none"
      /\ own.st # "none" =>
           /\ Len(hist[t].stages) >= 2
           /\ hist[t].stages[1] = "link_wait" /\ hist[t].stages[2] = "dns_wait"

\* A second requests_init that failed at the parse after the first had
\* issued its query.
C20_Witness ==
  \E t \in Threads :
    /\ inits[t] = MaxInits
    /\ queries[<<t, 1>>].st # "none"
    /\ pc[t] = "ready"
    /\ Went(t, "parse")

(***************************************************************************)
(* Properties of the TLS options of a connection (specification Spec).     *)
(***************************************************************************)
TlsOptions == {"TLS_HOSTNAME", "TLS_SEC_TAG_LIST", "TLS_PEER_VERIFY"}

\* C21: in a TLS build, a requests call on a context with is_ssl_verifyhost
\* set that reaches connect has bound the hostname of the URL to the socket
\* with TLS_HOSTNAME, once, after the socket call and before connect; with
\* is_ssl_verifyhost clear it binds no hostname; and connect comes after
\* every TLS option call, each of which succeeded.
C21_HostnameBoundBeforeConnect ==
  \A t \in Threads :
    (Returned(t) /\ Prepared(t) /\ tls) =>
      LET calls == res[t].calls
          host == CallsOf(calls, {"TLS_HOSTNAME"})
          conn == CallsOf(calls, {"connect"})
      IN /\ ~ctx[t].is_ssl_verifyhost => host = {}
         /\ (ctx[t].is_ssl_verifyhost /\ conn # {}) =>
              /\ Cardinality(host) = 1
              /\ \A i \in host :
                   /\ calls[i].args = {ctx[t].url_fields.hostname}
                   /\ calls[i].fd = res[t].created
                   /\ \A s \in CallsOf(calls, {"socket_tls"}) : s < i
         /\ \A j \in conn : \A i \in CallsOf(calls, TlsOptions) :
              i < j /\ calls[i].ok

\* A TLS connection made with host verification on.
C21_Witness ==
  \E t \in Threads :
    /\ Returned(t) /\ Prepared(t) /\ tls
    /\ ctx[t].is_ssl_verifyhost
    /\ \E j \in CallsOf(res[t].calls, {"connect"}) : res[t].calls[j].ok

(***************************************************************************)
(* Properties of requests_init against the host (specification SpecSeq).   *)
(***************************************************************************)
\* C22: a requests_init gets past its wait for the link (k_sem_take of
\* ipv4_wait succeeds) only in a step at whose end the host's link is up: a
\* link-up signal left over from an earlier requests_init, followed by the
\* link going down, does not let a later requests_init past the wait.
C22_LinkWaitNeedsLinkUp ==
  [][\A t \in Threads :
       (pc[t] # "link_ok" /\ pc'[t] = "link_ok") => link']_vars

\* C23: once a requests_init has returned, with success or with a failure or
\* time-out, no later step before the next requests_init on that context
\* changes the context's resolved address or its error code.
C23_NoCallbackAfterReturn ==
  [][\A t \in Threads :
       (pc[t] \in {"ready", "done"} /\ pc'[t] = pc[t] /\ inits'[t] = inits[t]) =>
         (ctx'[t].sa = ctx[t].sa /\ ctx'[t].err = ctx[t].err)]_vars

(***************************************************************************)
(* Properties of the socket of a request (specification Spec).             *)
(***************************************************************************)
\* C24: the socket a requests call creates follows the schema of the URL
\* the context was initialised with: a TLS socket for "https://", a plain
\* TCP socket for "http://", whether the build has TLS sockets or not.
C24_TransportFollowsSchema ==
  \A t \in Threads :
    (Returned(t) /\ Prepared(t) /\ res[t].created >= 0) =>
      LET https_url == Lower(ctx[t].url_fields.schema) = https
      IN /\ https_url => CallsOf(res[t].calls, {"socket_tcp"}) = {}
         /\ ~https_url => CallsOf(res[t].calls, {"socket_tls"}) = {}

\* C25: outside a running requests call the socket handle of a context that
\* requests_init succeeded on names no socket: after requests_init, and after
\* requests has returned by any path, ctx->sockfd is neither the number of
\* an open socket nor the number of the descriptor that the call has closed.
C25_SocketHandleUnconnected ==
  \A t \in Threads :
    (pc[t] \in {"ready", "done"} /\ Prepared(t)) =>
      /\ ctx[t].sockfd \notin fds
      /\ (Returned(t) /\ res[t].created >= 0) => ctx[t].sockfd # res[t].created

(***************************************************************************)
(* The fields left by a successful parse (specification SpecParse).        *)
(***************************************************************************)
\* C26: after a successful parse (whose copies stay within the uri buffer)
\* the hostname field is not empty and the uri field is not empty: it is "/"
\* when the URL has no path, and otherwise exactly the path of the URL.
C26_UriIsPath ==
  (Parsed /\ UriFits) =>
    /\ url_out.url_fields.hostname # <<>>
    /\ url_out.url_fields.uri # <<>>
    /\ url_out.url_fields.uri =
         (IF url_in.path = <<>> THEN <<"/">> ELSE url_in.path)

====
